---- MODULE Spec2Model ----
(***************************************************************************)
(* Model of the report generator of the web application security scanner   *)
(* (report_generator.py): the scan store it reads, the six renderers, the  *)
(* multi-format orchestrator, and the scanning driver that fills the store *)
(* while reports are generated.                                            *)
(***************************************************************************)
EXTENDS Integers, Sequences, FiniteSets, TLC

\* ------------------------------------------------------------------ bounds
MaxScans == 2
MaxVulns == 2
MaxClock == 1
MaxRaces == 1
MaxReruns == 1
\* Scans already in the store when the batch script starts.
MaxPrior == 2
\* Largest position of a finding handed to the HTML finding template.
MaxIdx == 2

\* ------------------------------------------------------------------ values
\* Python's None (SQL NULL), kept apart from the empty string.
None == "<None>"


Formats == {"HTML", "PDF", "JSON", "CSV", "DOCX", "Excel"}

VARIABLES
    scans,            \* the scans table: rows in rowid order
    vulns,            \* the vulnerabilities table: rows in rowid order
    files,            \* the file system: path -> content
    PDF_AVAILABLE,    \* module-level capability flags, set at import
    DOCX_AVAILABLE,
    EXCEL_AVAILABLE,
    now,              \* the wall clock read by datetime.now()
    open_conns,       \* store connections opened and not closed
    gen,              \* the generator process: position and locals
    last,             \* what the last finished generator call gave its caller
    log,              \* the renderer calls of the current / last invocation
    existed,          \* whether the requested scan had a row when the call began
    reruns,           \* how often the generator script was run again
    races,            \* driver writes made since the generator was started
    batch,            \* the batch script: position, loop index and locals
    probe             \* one finding handed to the HTML finding template

vars == <<scans, vulns, files, PDF_AVAILABLE, DOCX_AVAILABLE, EXCEL_AVAILABLE, batch, probe,
          now, open_conns, gen, last, log, existed, reruns, races>>

\* ------------------------------------------------------------------ store
\* A scans row is the tuple the SELECT * gives:
\*   <<id, target_url, scan_type, start_time, end_time,
\*     total_alerts, high_risk, medium_risk, low_risk, status>>
\* A vulnerabilities row:
\*   <<id, scan_id, name, severity, confidence, url, description, solution, reference>>

ScanIds == 1..MaxScans

Websites == <<"http://testphp.vulnweb.com", "http://testhtml5.vulnweb.com",
              "http://testasp.vulnweb.com">>
TargetOf(n) == Websites[((n - 1) % Len(Websites)) + 1]

StartTime == "2024-01-01 10:00:00"
EndTime == "2024-01-01 10:05:00"

\* The findings the driver reports, in the order it reports them:
\*   <<name, severity, confidence, url, description, solution, reference>>
Findings == <<
    <<"SQL Injection", "High", "Medium", "http://t/a?id=1",
      "SQL, injected", "Use prepared statements", "https://owasp.org/sqli">>,
    <<"Reflected XSS", "Medium", "Low", "http://t/q",
      "Script reflected", "", None>>,
    <<"Missing Security Header", "Low", "High", "http://t/",
      "No \"CSP\" header", None, "">> >>
FindingNo(n) == Findings[((n - 1) % Len(Findings)) + 1]

RECURSIVE CountSev(_, _, _)
CountSev(vs, sid, sev) ==
    IF vs = <<>> THEN 0
    ELSE (IF Head(vs)[2] = sid /\ (sev = "*" \/ Head(vs)[4] = sev) THEN 1 ELSE 0)
         + CountSev(Tail(vs), sid, sev)

\* A driver write that falls inside a running generator call is counted.
Raced ==
    /\ gen.pc # "idle" => races < MaxRaces
    /\ races' = IF gen.pc # "idle" THEN races + 1 ELSE races

\* The driver starts the next scan (status running, counts zero) once the
\* scan before it has ended: the batch script scans one website at a time.
DriverInsertScan ==
    /\ Len(scans) < MaxScans
    /\ scans # <<>> => scans[Len(scans)][10] = "completed"
    /\ scans' = Append(scans, <<Len(scans) + 1, TargetOf(Len(scans) + 1), "quick",
                                StartTime, None, 0, 0, 0, 0, "running">>)
    /\ Raced
    /\ UNCHANGED <<vulns, files, PDF_AVAILABLE, DOCX_AVAILABLE, EXCEL_AVAILABLE, batch, probe,
                   now, open_conns, gen, last, log, existed, reruns>>

\* The driver records one finding of the latest scan.
DriverInsertVuln ==
    /\ Len(vulns) < MaxVulns
    /\ scans # <<>>
    /\ vulns' = Append(vulns, <<Len(vulns) + 1, Len(scans)>> \o FindingNo(Len(vulns) + 1))
    /\ Raced
    /\ UNCHANGED <<scans, files, PDF_AVAILABLE, DOCX_AVAILABLE, EXCEL_AVAILABLE, batch, probe,
                   now, open_conns, gen, last, log, existed, reruns>>

\* The driver ends the running scan: it stores the counts of the findings it
\* has recorded so far, the end time and the terminal status.
DriverFinishScan ==
    /\ scans # <<>>
    /\ LET sid == Len(scans)
       IN  /\ scans[sid][10] = "running"
           /\ scans' = [scans EXCEPT ![sid] =
                          <<sid, scans[sid][2], scans[sid][3], scans[sid][4], EndTime,
                            CountSev(vulns, sid, "*"), CountSev(vulns, sid, "High"),
                            CountSev(vulns, sid, "Medium"), CountSev(vulns, sid, "Low"),
                            "completed">>]
    /\ Raced
    /\ UNCHANGED <<vulns, files, PDF_AVAILABLE, DOCX_AVAILABLE, EXCEL_AVAILABLE, batch, probe,
                   now, open_conns, gen, last, log, existed, reruns>>

\* ------------------------------------------------------------------ get_scan_data
\* cursor.execute('SELECT * FROM scans WHERE id = ?'); cursor.fetchone():
\* the first matching row, or None.
\* Modelled as a sequence: <<>> for None, <<row>> for a row.
SelectScan(scan_id) ==
    LET rows == SelectSeq(scans, LAMBDA r : r[1] = scan_id)
    IN  IF rows = <<>> THEN <<>> ELSE <<rows[1]>>

\* Mutant: the WHERE clause is lost, every scan's findings are fetched.
SelectVulns_NoWhere(scan_id) == vulns

\* cursor.execute('SELECT * FROM vulnerabilities WHERE scan_id = ?'); fetchall()
SelectVulns(scan_id) == SelectSeq(vulns, LAMBDA v : v[2] = scan_id)

\* The dictionary appended for one vulnerabilities row (v[0], v[2] .. v[8]).
VulnDict(v) ==
    [id |-> v[1], name |-> v[3], severity |-> v[4], confidence |-> v[5],
     url |-> v[6], description |-> v[7], solution |-> v[8], reference |-> v[9]]

\* The aggregate built from the scan row and the fetched vulnerabilities.
ScanData(scan, vs) ==
    [scan_id |-> scan[1], target_url |-> scan[2], scan_type |-> scan[3],
     start_time |-> scan[4], end_time |-> scan[5], total_alerts |-> scan[6],
     high_risk |-> scan[7], medium_risk |-> scan[8], low_risk |-> scan[9],
     status |-> scan[10],
     vulnerabilities |-> [i \in 1..Len(vs) |-> VulnDict(vs[i])]]

\* ------------------------------------------------------------------ conversions
Digits == <<"0", "1", "2", "3", "4", "5", "6", "7", "8", "9">>

\* str(n) / f"{n}" of a non-negative integer.
RECURSIVE StrInt(_)
StrInt(n) ==
    IF n < Len(Digits) THEN Digits[n + 1]
    ELSE StrInt(n \div Len(Digits)) \o Digits[(n % Len(Digits)) + 1]

\* f"{s}" of a string or None.
Fmt(s) == IF s = None THEN "None" ELSE s

\* str.title() on the tags the store holds.
Title(s) ==
    CASE s = "quick" -> "Quick"
      [] s = "full" -> "Full"
      [] s = "running" -> "Running"
      [] s = "completed" -> "Completed"
      [] OTHER -> s

\* str.lower() on the severity tiers.
Lower(s) ==
    CASE s = "High" -> "high"
      [] s = "Medium" -> "medium"
      [] s = "Low" -> "low"
      [] OTHER -> s

\* Mutant: the test asks whether the value is None, not whether it is empty.
Truthy_NotNone(s) == s # None

\* Python truthiness of an optional string: None and "" are false.
Truthy(s) == s # None /\ s # ""

\* datetime.now().strftime("%Y-%m-%d %H:%M:%S"): the year and the time in it.
Strftime(t) == <<StrInt(t.year), StrInt(t.sec)>>

\* A paragraph that is emitted only when its value is truthy.
Optional(label, s) == IF Truthy(s) THEN << <<label, s>> >> ELSE <<>>

\* ------------------------------------------------------------------ renderers
\* Each renderer's document, as the parts the code fills in, in document order.

HtmlFinding(idx, vuln) ==
    [class |-> Lower(vuln.severity),
     title |-> <<StrInt(idx), vuln.name>>,
     badge |-> vuln.severity,
     description |-> Fmt(vuln.description),
     location |-> Fmt(vuln.url),
     confidence |-> Fmt(vuln.confidence),
     solution |-> Optional("Recommended Solution:", vuln.solution),
     reference |-> Optional("Reference:", vuln.reference)]

\* Mutant: enumerate without its start argument numbers the findings from 0.
HtmlDocument_ZeroBased(data, scan_id, t) ==
    [kind |-> "html",
     cards |-> << <<"Total Issues", StrInt(data.total_alerts)>>,
                  <<"High Risk", StrInt(data.high_risk)>>,
                  <<"Medium Risk", StrInt(data.medium_risk)>>,
                  <<"Low Risk", StrInt(data.low_risk)>> >>,
     info |-> << <<"Target URL:", Fmt(data.target_url)>>,
                 <<"Scan Type:", Title(data.scan_type)>>,
                 <<"Start Time:", Fmt(data.start_time)>>,
                 <<"End Time:", Fmt(data.end_time)>>,
                 <<"Status:", Title(data.status)>> >>,
     generated |-> Strftime(t),
     findings |-> [i \in 1..Len(data.vulnerabilities) |->
                     HtmlFinding(i - 1, data.vulnerabilities[i])],
     report_id |-> StrInt(scan_id),
     copyright |-> StrInt(t.year)]

\* The HTML report: stat cards, scan details, one card per finding from
\* enumerate(data['vulnerabilities'], 1), footer.
HtmlDocument(data, scan_id, t) ==
    [kind |-> "html",
     cards |-> << <<"Total Issues", StrInt(data.total_alerts)>>,
                  <<"High Risk", StrInt(data.high_risk)>>,
                  <<"Medium Risk", StrInt(data.medium_risk)>>,
                  <<"Low Risk", StrInt(data.low_risk)>> >>,
     info |-> << <<"Target URL:", Fmt(data.target_url)>>,
                 <<"Scan Type:", Title(data.scan_type)>>,
                 <<"Start Time:", Fmt(data.start_time)>>,
                 <<"End Time:", Fmt(data.end_time)>>,
                 <<"Status:", Title(data.status)>> >>,
     generated |-> Strftime(t),
     findings |-> [i \in 1..Len(data.vulnerabilities) |->
                     HtmlFinding(i, data.vulnerabilities[i])],
     report_id |-> StrInt(scan_id),
     copyright |-> StrInt(t.year)]

PdfFinding(idx, vuln) ==
    [heading |-> <<StrInt(idx), vuln.name, vuln.severity>>,
     paragraphs |-> << <<"Description:", Fmt(vuln.description)>>,
                       <<"Location:", Fmt(vuln.url)>> >>
                    \o Optional("Solution:", vuln.solution)]

PdfDocument(data) ==
    [kind |-> "pdf",
     summary |-> << <<"Metric", "Count">>,
                    <<"Total Issues", StrInt(data.total_alerts)>>,
                    <<"High Risk", StrInt(data.high_risk)>>,
                    <<"Medium Risk", StrInt(data.medium_risk)>>,
                    <<"Low Risk", StrInt(data.low_risk)>> >>,
     info |-> << <<"Target URL:", data.target_url>>,
                 <<"Scan Type:", Title(data.scan_type)>>,
                 <<"Start Time:", data.start_time>>,
                 <<"End Time:", data.end_time>>,
                 <<"Status:", Title(data.status)>> >>,
     findings |-> [i \in 1..Len(data.vulnerabilities) |->
                     PdfFinding(i, data.vulnerabilities[i])]]

\* json.dump(data): every key of the aggregate, None written as null.
JsonNumber(n) == [json |-> "number", text |-> StrInt(n)]
JsonString(s) == IF s = None THEN [json |-> "null", text |-> "null"]
                 ELSE [json |-> "string", text |-> s]

JsonFinding(vuln) ==
    [id |-> JsonNumber(vuln.id), name |-> JsonString(vuln.name),
     severity |-> JsonString(vuln.severity), confidence |-> JsonString(vuln.confidence),
     url |-> JsonString(vuln.url), description |-> JsonString(vuln.description),
     solution |-> JsonString(vuln.solution), reference |-> JsonString(vuln.reference)]

JsonDocument(data) ==
    [kind |-> "json",
     scan_id |-> JsonNumber(data.scan_id),
     target_url |-> JsonString(data.target_url),
     scan_type |-> JsonString(data.scan_type),
     start_time |-> JsonString(data.start_time),
     end_time |-> JsonString(data.end_time),
     total_alerts |-> JsonNumber(data.total_alerts),
     high_risk |-> JsonNumber(data.high_risk),
     medium_risk |-> JsonNumber(data.medium_risk),
     low_risk |-> JsonNumber(data.low_risk),
     status |-> JsonString(data.status),
     vulnerabilities |-> [i \in 1..Len(data.vulnerabilities) |->
                            JsonFinding(data.vulnerabilities[i])]]

\* csv.writer writes None as the empty field; every other field reads back as
\* the string written (quoting is undone by a reader).
CsvField(v) == IF v = None THEN "" ELSE v

CsvHeader == <<"Vulnerability Name", "Severity", "Confidence", "URL",
               "Description", "Solution">>

CsvRow(vuln) ==
    <<CsvField(vuln.name), CsvField(vuln.severity), CsvField(vuln.confidence),
      CsvField(vuln.url), CsvField(vuln.description), CsvField(vuln.solution)>>

CsvDocument(data) ==
    [kind |-> "csv",
     header |-> CsvHeader,
     rows |-> [i \in 1..Len(data.vulnerabilities) |-> CsvRow(data.vulnerabilities[i])]]

DocxFinding(idx, vuln) ==
    [heading |-> <<StrInt(idx), vuln.name>>,
     paragraphs |-> << <<"Severity:", Fmt(vuln.severity)>>,
                       <<"Description:", Fmt(vuln.description)>>,
                       <<"Location:", Fmt(vuln.url)>> >>
                    \o Optional("Solution:", vuln.solution)]

\* Mutant: the summary table lists the medium count above the high count.
DocxDocument_MediumFirst(data) ==
    [kind |-> "docx",
     summary |-> << <<"Total Issues", StrInt(data.total_alerts)>>,
                    <<"Medium Risk", StrInt(data.medium_risk)>>,
                    <<"High Risk", StrInt(data.high_risk)>>,
                    <<"Low Risk", StrInt(data.low_risk)>>,
                    <<"Target URL", data.target_url>> >>,
     findings |-> [i \in 1..Len(data.vulnerabilities) |->
                     DocxFinding(i, data.vulnerabilities[i])]]

\* The Word report: summary table, then one heading and its paragraphs per
\* finding.
DocxDocument(data) ==
    [kind |-> "docx",
     summary |-> << <<"Total Issues", StrInt(data.total_alerts)>>,
                    <<"High Risk", StrInt(data.high_risk)>>,
                    <<"Medium Risk", StrInt(data.medium_risk)>>,
                    <<"Low Risk", StrInt(data.low_risk)>>,
                    <<"Target URL", data.target_url>> >>,
     findings |-> [i \in 1..Len(data.vulnerabilities) |->
                     DocxFinding(i, data.vulnerabilities[i])]]

ExcelHeader == <<"#", "Name", "Severity", "Confidence", "URL", "Description", "Solution">>

ExcelRow(idx, vuln) ==
    [num |-> idx,
     cells |-> <<vuln.name, vuln.severity, vuln.confidence, vuln.url,
                 vuln.description, vuln.solution>>]

\* Mutant: the loop over the findings starts at the second one.
ExcelDocument_SkipsFirst(data) ==
    [kind |-> "xlsx",
     info |-> << <<"Target URL", data.target_url>>, <<"Scan Type", data.scan_type>> >>,
     counts |-> << <<"Total Issues", data.total_alerts>>,
                   <<"High Risk", data.high_risk>>,
                   <<"Medium Risk", data.medium_risk>>,
                   <<"Low Risk", data.low_risk>> >>,
     header |-> ExcelHeader,
     rows |-> [i \in 1..(Len(data.vulnerabilities) - 1) |->
                 ExcelRow(i, data.vulnerabilities[i + 1])]]

ExcelDocument(data) ==
    [kind |-> "xlsx",
     info |-> << <<"Target URL", data.target_url>>, <<"Scan Type", data.scan_type>> >>,
     counts |-> << <<"Total Issues", data.total_alerts>>,
                   <<"High Risk", data.high_risk>>,
                   <<"Medium Risk", data.medium_risk>>,
                   <<"Low Risk", data.low_risk>> >>,
     header |-> ExcelHeader,
     rows |-> [i \in 1..Len(data.vulnerabilities) |->
                 ExcelRow(i, data.vulnerabilities[i])]]

\* The document a renderer builds from the aggregate it has read.
Document(fmt, data, scan_id, t) ==
    CASE fmt = "HTML" -> HtmlDocument(data, scan_id, t)
      [] fmt = "PDF" -> PdfDocument(data)
      [] fmt = "JSON" -> JsonDocument(data)
      [] fmt = "CSV" -> CsvDocument(data)
      [] fmt = "DOCX" -> DocxDocument(data)
      [] fmt = "Excel" -> ExcelDocument(data)

\* ------------------------------------------------------------------ files
BaseNames == {"report", "security_report"}

Ext(fmt) ==
    CASE fmt = "HTML" -> ".html"
      [] fmt = "PDF" -> ".pdf"
      [] fmt = "JSON" -> ".json"
      [] fmt = "CSV" -> ".csv"
      [] fmt = "DOCX" -> ".docx"
      [] fmt = "Excel" -> ".xlsx"

Path(base, fmt) == base \o Ext(fmt)

Paths == {Path(b, f) : b \in BaseNames, f \in Formats}

\* No file at the path; the file open() leaves when the write after it fails.
Absent == [kind |-> "absent"]
Truncated == [kind |-> "truncated"]

\* ------------------------------------------------------------------ generator
\* One run of the script: it waits for its input (idle), makes the one call
\* the user chose, and ends (exit).  `op` and `scan_id` are the user's input.
Idle == [pc |-> "idle", op |-> "none", scan_id |-> 0, queue |-> <<>>,
         base |-> "", results |-> <<>>, scan |-> <<>>]

\* `if not PDF_AVAILABLE` / DOCX_AVAILABLE / EXCEL_AVAILABLE at a renderer's top;
\* HTML, JSON and CSV need no optional encoder.
Available(fmt) ==
    CASE fmt = "PDF" -> PDF_AVAILABLE
      [] fmt = "DOCX" -> DOCX_AVAILABLE
      [] fmt = "Excel" -> EXCEL_AVAILABLE
      [] OTHER -> TRUE

\* Mutant: the PDF renderer is registered without looking at its flag.
AllFormats_PdfUngated ==
    <<"HTML", "JSON", "CSV", "PDF">>
    \o (IF DOCX_AVAILABLE THEN <<"DOCX">> ELSE <<>>)
    \o (IF EXCEL_AVAILABLE THEN <<"Excel">> ELSE <<>>)

\* The formats dictionary of generate_all_formats, in insertion order.
AllFormats ==
    <<"HTML", "JSON", "CSV">>
    \o (IF PDF_AVAILABLE THEN <<"PDF">> ELSE <<>>)
    \o (IF DOCX_AVAILABLE THEN <<"DOCX">> ELSE <<>>)
    \o (IF EXCEL_AVAILABLE THEN <<"Excel">> ELSE <<>>)

Current == Head(gen.queue)

\* Mutant: the renderer ignores the output_file it is given and writes to its
\* default path.
OutputFile_Default == Path("report", Current)

\* The output_file argument: the default of a direct call, f"{base_name}.<ext>"
\* in generate_all_formats.
OutputFile == Path(gen.base, Current)

Exit == [gen EXCEPT !.pc = "exit", !.queue = <<>>, !.results = <<>>, !.scan = <<>>]

Entry(outcome, ret, data, wrote) ==
    [fmt |-> Current, path |-> OutputFile, scan_id |-> gen.scan_id,
     outcome |-> outcome, ret |-> ret, data |-> data, wrote |-> wrote]

\* What a renderer returns: `return False` for an absent encoder and for an
\* unknown scan, `return True` after the file is written.
UnavailableResult == FALSE
NotFoundResult == FALSE
SuccessResult == TRUE

\* The running renderer returns `success` to its caller: the invoker of a
\* direct call, or the loop of generate_all_formats, which stores the flag and
\* goes on to the next format, and returns the results after the last one.
Return(success, outcome, data, wrote) ==
    /\ log' = Append(log, Entry(outcome, <<success>>, data, wrote))
    /\ IF gen.op # "ALL"
       THEN /\ gen' = Exit
            /\ last' = [op |-> gen.op, raised |-> FALSE, ret |-> <<success>>]
       ELSE LET results == Append(gen.results, <<Current, success>>)
            IN  IF Len(gen.queue) = 1
                THEN /\ gen' = Exit
                     /\ last' = [op |-> "ALL", raised |-> FALSE, ret |-> <<results>>]
                ELSE /\ gen' = [gen EXCEPT !.pc = "enter", !.queue = Tail(gen.queue),
                                           !.results = results, !.scan = <<>>]
                     /\ last' = last

\* An error raised inside the running renderer: no handler in the renderer nor
\* in generate_all_formats, so it leaves the whole call.
Raise(outcome, data, wrote) ==
    /\ log' = Append(log, Entry(outcome, <<>>, data, wrote))
    /\ gen' = Exit
    /\ last' = [op |-> gen.op, raised |-> TRUE, ret |-> <<>>]

NoCall == [op |-> "none", raised |-> FALSE, ret |-> <<>>]

\* Choices 1 .. 6: a direct call of one renderer with its default output file.
CallRenderer ==
    /\ gen.pc = "idle"
    /\ \E fmt \in Formats, scan_id \in ScanIds :
         /\ gen' = [Idle EXCEPT !.pc = "enter", !.op = fmt, !.scan_id = scan_id,
                                !.queue = <<fmt>>, !.base = "report"]
         /\ existed' = (SelectScan(scan_id) # <<>>)
    /\ log' = <<>>
    /\ last' = NoCall
    /\ UNCHANGED <<scans, vulns, files, PDF_AVAILABLE, DOCX_AVAILABLE, EXCEL_AVAILABLE, batch, probe,
                   now, open_conns, reruns, races>>

\* Choice 7, generate_all_formats(scan_id): the formats dictionary is built
\* from the capability flags, then the loop starts.
CallAllFormats ==
    /\ gen.pc = "idle"
    /\ \E scan_id \in ScanIds :
         /\ gen' = [Idle EXCEPT !.pc = "enter", !.op = "ALL", !.scan_id = scan_id,
                                !.queue = AllFormats, !.base = "security_report"]
         /\ existed' = (SelectScan(scan_id) # <<>>)
    /\ log' = <<>>
    /\ last' = NoCall
    /\ UNCHANGED <<scans, vulns, files, PDF_AVAILABLE, DOCX_AVAILABLE, EXCEL_AVAILABLE, batch, probe,
                   now, open_conns, reruns, races>>

\* The script is run again with the same input (a direct call).
Rerun ==
    /\ gen.pc = "exit"
    /\ reruns < MaxReruns
    /\ reruns' = reruns + 1
    /\ gen' = [gen EXCEPT !.pc = "enter", !.queue = <<gen.op>>]
    /\ existed' = (SelectScan(gen.scan_id) # <<>>)
    /\ log' = <<>>
    /\ last' = NoCall
    /\ UNCHANGED <<scans, vulns, files, PDF_AVAILABLE, DOCX_AVAILABLE, EXCEL_AVAILABLE, batch, probe,
                   now, open_conns, races>>

\* The encoder is absent: the renderer returns before any store access.
RenderUnavailable ==
    /\ ~Available(Current)
    /\ Return(UnavailableResult, "unavailable", <<>>, FALSE)
    /\ UNCHANGED <<open_conns, files>>

\* sqlite3.connect, then the scans query raises: conn.close() is not reached.
ScanQueryRaises ==
    /\ Available(Current)
    /\ open_conns' = open_conns + 1
    /\ Raise("query_error", <<>>, FALSE)
    /\ UNCHANGED files

\* Mutant: the output file is opened before the aggregate is looked at.
RenderNotFound_OpensFirst ==
    /\ Available(Current)
    /\ SelectScan(gen.scan_id) = <<>>
    /\ Return(NotFoundResult, "not_found", <<>>, TRUE)
    /\ files' = [files EXCEPT ![OutputFile] = Truncated]
    /\ UNCHANGED open_conns

\* No row: conn.close(); return None; `if not data` returns from the renderer.
RenderNotFound ==
    /\ Available(Current)
    /\ SelectScan(gen.scan_id) = <<>>
    /\ Return(NotFoundResult, "not_found", <<>>, FALSE)
    /\ UNCHANGED <<open_conns, files>>

\* A row: the connection stays open for the vulnerabilities query.
ScanFound ==
    /\ Available(Current)
    /\ SelectScan(gen.scan_id) # <<>>
    /\ open_conns' = open_conns + 1
    /\ gen' = [gen EXCEPT !.pc = "fetch", !.scan = SelectScan(gen.scan_id)]
    /\ UNCHANGED <<last, log, files>>

\* A renderer from its first line to the scans query of get_scan_data.
RendererEnter ==
    /\ gen.pc = "enter"
    /\ \/ RenderUnavailable
       \/ ScanQueryRaises
       \/ RenderNotFound
       \/ ScanFound
    /\ UNCHANGED <<scans, vulns, PDF_AVAILABLE, DOCX_AVAILABLE, EXCEL_AVAILABLE, batch, probe,
                   now, existed, reruns, races>>

\* The aggregate get_scan_data returns on the found path.
FetchedData == ScanData(gen.scan[1], SelectVulns(gen.scan_id))

\* The vulnerabilities query raises: conn.close() is not reached.
VulnQueryRaises ==
    /\ Raise("query_error", <<>>, FALSE)
    /\ UNCHANGED <<open_conns, files>>

\* Mutant: an aggregate without findings is taken for the not-found result.
WriteDocument_EmptyIsNotFound ==
    /\ open_conns' = open_conns - 1
    /\ IF FetchedData.vulnerabilities = <<>>
       THEN /\ Return(NotFoundResult, "not_found", <<>>, FALSE)
            /\ UNCHANGED files
       ELSE /\ files' = [files EXCEPT ![OutputFile] =
                           Document(Current, FetchedData, gen.scan_id, now)]
            /\ Return(SuccessResult, "written", <<FetchedData>>, TRUE)

\* conn.close(); the aggregate is a non-empty dict, so `if not data` lets it
\* pass; the document is built and written to the output file.
WriteDocument ==
    /\ open_conns' = open_conns - 1
    /\ files' = [files EXCEPT ![OutputFile] =
                   Document(Current, FetchedData, gen.scan_id, now)]
    /\ Return(SuccessResult, "written", <<FetchedData>>, TRUE)

\* conn.close(); opening the output file raises: nothing is written.
OpenFails ==
    /\ open_conns' = open_conns - 1
    /\ Raise("write_error", <<FetchedData>>, FALSE)
    /\ UNCHANGED files

\* conn.close(); the file is opened (created or emptied), then writing raises.
WriteFails ==
    /\ open_conns' = open_conns - 1
    /\ files' = [files EXCEPT ![OutputFile] = Truncated]
    /\ Raise("write_error", <<FetchedData>>, TRUE)

\* The vulnerabilities query of get_scan_data and the renderer's body.
RendererFinish ==
    /\ gen.pc = "fetch"
    /\ \/ VulnQueryRaises
       \/ WriteDocument
       \/ OpenFails
       \/ WriteFails
    /\ UNCHANGED <<scans, vulns, PDF_AVAILABLE, DOCX_AVAILABLE, EXCEL_AVAILABLE, batch, probe,
                   now, existed, reruns, races>>

\* Time passes between two runs of the script: within the year, or into the
\* next year.
Tick ==
    /\ gen.pc = "exit"
    /\ now.year + now.sec < MaxClock
    /\ \/ now' = [now EXCEPT !.sec = @ + 1]
       \/ now' = [year |-> now.year + 1, sec |-> 0]
    /\ UNCHANGED <<scans, vulns, files, PDF_AVAILABLE, DOCX_AVAILABLE, EXCEL_AVAILABLE, batch, probe,
                   open_conns, gen, last, log, existed, reruns, races>>

\* ------------------------------------------------------------------ batch script
\* batch_scan.py: one scan per website, in list order.  What start_scan
\* returns is the scanner's answer: a scan id, or a falsy value when the scan
\* could not be made.  A return value is a sequence: <<>> for None, <<n>> for
\* the number n (0 stands for a falsy value other than None).
genvars == <<scans, vulns, files, PDF_AVAILABLE, DOCX_AVAILABLE, EXCEL_AVAILABLE,
             now, open_conns, gen, last, log, existed, reruns, races>>

BatchOff == [pc |-> "off", i |-> 0, scan_id |-> <<>>, results |-> <<>>,
             returned |-> <<>>, calls |-> <<>>, next_id |-> 0, saved |-> <<>>]

\* The script starts with the loop at the first website; the store holds the
\* scans of earlier runs, so the next scan id is one more than their number.
BatchStart(prior) == [BatchOff EXCEPT !.pc = "scan", !.i = 1, !.next_id = prior + 1]

\* `if scan_id:`
ScanIdTruthy(ret) == ret # <<>> /\ ret[1] # 0

\* scan_id = scanner.start_scan(url, 'quick'): the next scan id, or a falsy
\* value; a scan that fails may or may not have taken its row id.
BatchStartScan ==
    /\ batch.pc = "scan"
    /\ batch.i <= Len(Websites)
    /\ \E ret \in {<<>>, <<0>>, <<batch.next_id>>}, taken \in BOOLEAN :
         /\ ScanIdTruthy(ret) => taken
         /\ batch' = [batch EXCEPT !.pc = "test", !.scan_id = ret,
                        !.returned = Append(@, <<Websites[batch.i], ret>>),
                        !.next_id = IF taken THEN @ + 1 ELSE @]
    /\ UNCHANGED <<genvars, probe>>

\* scanner.print_summary(scan_id)
BatchPrintSummary ==
    /\ batch.pc = "test"
    /\ ScanIdTruthy(batch.scan_id)
    /\ batch' = [batch EXCEPT !.pc = "report",
                   !.calls = Append(@, <<"print_summary", batch.scan_id[1]>>)]
    /\ UNCHANGED <<genvars, probe>>

\* scanner.generate_report(scan_id, f'report_{scan_id}.html')
BatchGenerateReport ==
    /\ batch.pc = "report"
    /\ batch' = [batch EXCEPT !.pc = "append",
                   !.calls = Append(@, <<"generate_report", batch.scan_id[1],
                                         "report_" \o StrInt(batch.scan_id[1]) \o ".html">>)]
    /\ UNCHANGED <<genvars, probe>>

\* results.append({... 'status': 'completed'}); the loop goes to the next website.
BatchAppendCompleted ==
    /\ batch.pc = "append"
    /\ batch' = [batch EXCEPT !.pc = "scan", !.i = @ + 1, !.scan_id = <<>>,
                   !.results = Append(@, [url |-> Websites[batch.i],
                                          scan_id |-> batch.scan_id,
                                          status |-> "completed"])]
    /\ UNCHANGED <<genvars, probe>>

\* Mutant: a website whose scan failed ends the loop.
BatchAppendFailed_Breaks ==
    /\ batch.pc = "test"
    /\ ~ScanIdTruthy(batch.scan_id)
    /\ batch' = [batch EXCEPT !.pc = "scan", !.i = Len(Websites) + 1, !.scan_id = <<>>,
                   !.results = Append(@, [url |-> Websites[batch.i],
                                          scan_id |-> <<>>,
                                          status |-> "failed"])]
    /\ UNCHANGED <<genvars, probe>>

\* else: results.append({... 'scan_id': None, 'status': 'failed'}); the loop
\* goes to the next website.
BatchAppendFailed ==
    /\ batch.pc = "test"
    /\ ~ScanIdTruthy(batch.scan_id)
    /\ batch' = [batch EXCEPT !.pc = "scan", !.i = @ + 1, !.scan_id = <<>>,
                   !.results = Append(@, [url |-> Websites[batch.i],
                                          scan_id |-> <<>>,
                                          status |-> "failed"])]
    /\ UNCHANGED <<genvars, probe>>

\* json.dump(results) into batch_results.json once the loop has ended.
BatchResultJson(r) ==
    [url |-> JsonString(r.url),
     scan_id |-> IF r.scan_id = <<>> THEN JsonString(None) ELSE JsonNumber(r.scan_id[1]),
     status |-> JsonString(r.status)]

BatchSave ==
    /\ batch.pc = "scan"
    /\ batch.i > Len(Websites)
    /\ batch' = [batch EXCEPT !.pc = "done",
                   !.saved = <<[k \in DOMAIN batch.results |->
                                  BatchResultJson(batch.results[k])]>>]
    /\ UNCHANGED <<genvars, probe>>

\* ------------------------------------------------------------------ finding template
\* The HTML card of one finding, for the values the optional columns can hold.
ProbeOff == [pc |-> "off", idx |-> 0, vuln |-> <<>>, out |-> <<>>]

OptionalValues(text) == {None, "", text}

ProbeInputs ==
    {[pc |-> "input", idx |-> idx,
      vuln |-> <<VulnDict(<<idx, 1, FindingNo(n)[1], FindingNo(n)[2], FindingNo(n)[3],
                            FindingNo(n)[4], FindingNo(n)[5], solution, reference>>)>>,
      out |-> <<>>] :
        idx \in 1..MaxIdx, n \in DOMAIN Findings,
        solution \in OptionalValues(Findings[1][6]),
        reference \in OptionalValues(Findings[1][7])}

\* The body of the loop over enumerate(data['vulnerabilities'], 1).
RenderFinding ==
    /\ probe.pc = "input"
    /\ probe' = [probe EXCEPT !.pc = "rendered",
                   !.out = <<HtmlFinding(probe.idx, probe.vuln[1])>>]
    /\ UNCHANGED <<genvars, batch>>

\* ------------------------------------------------------------------ specification
GenInit ==
    /\ scans = <<>>
    /\ vulns = <<>>
    /\ files = [p \in Paths |-> Absent]
    /\ PDF_AVAILABLE \in BOOLEAN
    /\ DOCX_AVAILABLE \in BOOLEAN
    /\ EXCEL_AVAILABLE \in BOOLEAN
    /\ now = [year |-> 0, sec |-> 0]
    /\ open_conns = 0
    /\ gen = Idle
    /\ last = NoCall
    /\ log = <<>>
    /\ existed = FALSE
    /\ reruns = 0
    /\ races = 0

Init ==
    /\ GenInit
    /\ batch = BatchOff
    /\ probe = ProbeOff

\* One run of the generator script beside the scanning driver.
Next ==
    \/ DriverInsertScan
    \/ DriverInsertVuln
    \/ DriverFinishScan
    \/ CallRenderer
    \/ CallAllFormats
    \/ RendererEnter
    \/ RendererFinish

Spec == Init /\ [][Next]_vars

\* The same direct call made again by later runs of the script, as time passes.
NextRerun ==
    \/ DriverInsertScan
    \/ DriverInsertVuln
    \/ DriverFinishScan
    \/ Tick
    \/ CallRenderer
    \/ Rerun
    \/ RendererEnter
    \/ RendererFinish

SpecRerun == Init /\ [][NextRerun]_vars

\* The batch script alone, started on a store that holds up to MaxPrior scans.
InitBatch ==
    /\ GenInit
    /\ PDF_AVAILABLE /\ DOCX_AVAILABLE /\ EXCEL_AVAILABLE
    /\ batch \in {BatchStart(prior) : prior \in 0..MaxPrior}
    /\ probe = ProbeOff

NextBatch ==
    \/ BatchStartScan
    \/ BatchPrintSummary
    \/ BatchGenerateReport
    \/ BatchAppendCompleted
    \/ BatchAppendFailed
    \/ BatchSave

SpecBatch == InitBatch /\ [][NextBatch]_vars

\* The HTML finding template applied to one finding.
InitFinding ==
    /\ GenInit
    /\ PDF_AVAILABLE /\ DOCX_AVAILABLE /\ EXCEL_AVAILABLE
    /\ batch = BatchOff
    /\ probe \in ProbeInputs

NextFinding == RenderFinding

SpecFinding == InitFinding /\ [][NextFinding]_vars

\* ------------------------------------------------------------------ claims
LastOf(seq) == seq[Len(seq)]

\* A generator step: the generator's position or locals change.
GeneratorStep == gen' # gen

\* The rows of the vulnerabilities table that belong to a scan.
StoredIds(scan_id) == {k \in DOMAIN vulns : vulns[k][2] = scan_id}

IsDocument(content) == content.kind \notin {"absent", "truncated"}

AllDone == gen.pc = "exit" /\ gen.op = "ALL"

\* C1: a renderer called for a scan identifier without a row in the scans
\* table leaves every file as it was and, unless the query itself raises,
\* returns False.
C1_Step ==
    (gen.pc = "enter" /\ GeneratorStep /\ SelectScan(gen.scan_id) = <<>>) =>
        /\ files' = files
        /\ gen'.pc # "fetch"
        /\ last'.raised \/ LastOf(log').ret = <<FALSE>>
C1_UnknownScanFails == [][C1_Step]_vars

\* C1 witness: an all-formats run over six available renderers ended with
\* every renderer reporting the scan as not found and no file on disk.
C1_Witness ==
    /\ AllDone
    /\ Len(log) = Cardinality(Formats)
    /\ \A i \in DOMAIN log : log[i].outcome = "not_found" /\ log[i].ret = <<FALSE>>
    /\ \A p \in Paths : files[p] = Absent

\* C2: an all-formats run in which a renderer failed (returned False, or
\* raised while writing its file) still invoked every available renderer and
\* returned a flag for every available format.
C2_FailureIsolated ==
    (/\ AllDone
     /\ \A i \in DOMAIN log : log[i].outcome \in {"written", "not_found", "write_error"}
     /\ \E i \in DOMAIN log : log[i].outcome \in {"not_found", "write_error"}) =>
        /\ ~last.raised
        /\ [i \in DOMAIN log |-> log[i].fmt] = AllFormats
        /\ last.ret = << [i \in DOMAIN log |-> <<log[i].fmt, log[i].outcome = "written">>] >>

\* C3: get_scan_data returns the not-found result only when no scans row has
\* the identifier, and otherwise an aggregate with the ten fields of the row
\* it read and one entry for each vulnerabilities row of that scan, and no
\* other entry.
C3_Step ==
    /\ (gen.pc = "enter" /\ GeneratorStep /\ log' # log
          /\ LastOf(log').outcome = "not_found") =>
            /\ \A k \in DOMAIN scans : scans[k][1] # gen.scan_id
            /\ LastOf(log').data = <<>>
    /\ (gen.pc = "fetch" /\ GeneratorStep /\ LastOf(log').data # <<>>) =>
          LET d == LastOf(log').data[1]
              row == gen.scan[1]
              ids == StoredIds(gen.scan_id)
          IN  /\ row[1] = gen.scan_id
              /\ DOMAIN d = {"scan_id", "target_url", "scan_type", "start_time",
                             "end_time", "total_alerts", "high_risk", "medium_risk",
                             "low_risk", "status", "vulnerabilities"}
              /\ <<d.scan_id, d.target_url, d.scan_type, d.start_time, d.end_time,
                   d.total_alerts, d.high_risk, d.medium_risk, d.low_risk,
                   d.status>> = row
              /\ Len(d.vulnerabilities) = Cardinality(ids)
              /\ \A k \in ids : \E i \in DOMAIN d.vulnerabilities :
                    d.vulnerabilities[i] =
                        [id |-> vulns[k][1], name |-> vulns[k][3],
                         severity |-> vulns[k][4], confidence |-> vulns[k][5],
                         url |-> vulns[k][6], description |-> vulns[k][7],
                         solution |-> vulns[k][8], reference |-> vulns[k][9]]
C3_FullAggregateOrNone == [][C3_Step]_vars

\* C3 witness: an aggregate with one finding was returned while the table
\* also held a finding of another scan.
C3_Witness ==
    \E i \in DOMAIN log :
        /\ log[i].data # <<>>
        /\ Len(log[i].data[1].vulnerabilities) = 1
        /\ \E k \in DOMAIN vulns : vulns[k][2] # log[i].scan_id

\* C4: the files written by one all-formats run were all rendered from the
\* same aggregate (one store read, one snapshot).
C4_OneSnapshot ==
    (AllDone /\ ~last.raised) =>
        \A i, j \in DOMAIN log :
            (log[i].outcome = "written" /\ log[j].outcome = "written")
                => log[i].data = log[j].data

\* C5 as stated: an all-formats run for a scan that existed when it began ends
\* with every available renderer invoked once and a result holding success
\* for exactly the available formats.
C5_Complete ==
    /\ ~last.raised
    /\ \A f \in Formats :
          Cardinality({i \in DOMAIN log : log[i].fmt = f}) = IF Available(f) THEN 1 ELSE 0
    /\ LET results == last.ret[1]
       IN  /\ Len(results) = Cardinality({f \in Formats : Available(f)})
           /\ {results[i][1] : i \in DOMAIN results} = {f \in Formats : Available(f)}
           /\ \A i \in DOMAIN results : results[i][2] = TRUE
C6_UnavailableDistinct ==
    \A i \in DOMAIN log :
        log[i].outcome = "unavailable" => log[i].ret # <<NotFoundResult>>

\* C7: each of the seven fields of every stored finding is in the JSON
\* output and in the CSV output of its scan, unchanged: the JSON entry
\* decodes to the stored values, and the CSV table has a column per field
\* that holds the stored value in every row.
JsonRead(v) == IF v.json = "null" THEN None ELSE v.text
C7_Step ==
    (gen.pc = "fetch" /\ GeneratorStep /\ LastOf(log').outcome = "written"
       /\ files'[OutputFile].kind \in {"json", "csv"}) =>
        LET doc == files'[OutputFile]
            stored == SelectSeq(vulns, LAMBDA v : v[2] = gen.scan_id)
        IN  IF doc.kind = "json"
            THEN /\ Len(doc.vulnerabilities) = Len(stored)
                 /\ \A i \in DOMAIN stored :
                      LET e == doc.vulnerabilities[i]
                      IN  <<JsonRead(e.name), JsonRead(e.severity), JsonRead(e.confidence),
                            JsonRead(e.url), JsonRead(e.description), JsonRead(e.solution),
                            JsonRead(e.reference)>> = SubSeq(stored[i], 3, 9)
            ELSE /\ Len(doc.rows) = Len(stored)
                 /\ \A field \in 3..9 : \E col \in DOMAIN doc.header :
                      \A i \in DOMAIN stored :
                          doc.rows[i][col] = CsvField(stored[i][field])
C7_SevenFieldsIntact == [][C7_Step]_vars

\* C8: a renderer run again for the same scan and destination, with the store
\* unchanged since before the first run, writes what it wrote before, the
\* HTML "Report Generated" field excepted.
SameButGenerated(a, b) ==
    IF a.kind = "html" /\ b.kind = "html"
    THEN [a EXCEPT !.generated = b.generated] = b
    ELSE a = b
C8_Step ==
    (gen.pc = "fetch" /\ GeneratorStep /\ reruns > 0 /\ races = 0
       /\ LastOf(log').outcome = "written" /\ IsDocument(files[OutputFile])) =>
        SameButGenerated(files[OutputFile], files'[OutputFile])
C8_Idempotent == [][C8_Step]_vars

\* C9: whenever control is outside get_scan_data, no store connection is open.
C9_ConnectionsClosed == gen.pc \in {"idle", "enter", "exit"} => open_conns = 0

\* C10: the document a renderer writes for a scan has as many finding entries
\* as the scan has stored findings, one per stored finding and none else.
Entries(doc) ==
    CASE doc.kind \in {"html", "pdf", "docx"} -> doc.findings
      [] doc.kind = "json" -> doc.vulnerabilities
      [] doc.kind \in {"csv", "xlsx"} -> doc.rows
EntryName(doc, i) ==
    CASE doc.kind = "html" -> doc.findings[i].title[2]
      [] doc.kind \in {"pdf", "docx"} -> doc.findings[i].heading[2]
      [] doc.kind = "json" -> doc.vulnerabilities[i].name.text
      [] doc.kind = "csv" -> doc.rows[i][1]
      [] doc.kind = "xlsx" -> doc.rows[i].cells[1]
C10_Step ==
    (gen.pc = "fetch" /\ GeneratorStep /\ LastOf(log').outcome = "written") =>
        LET doc == files'[OutputFile]
            ids == StoredIds(gen.scan_id)
        IN  /\ IsDocument(doc)
            /\ Len(Entries(doc)) = Cardinality(ids)
            /\ \A k \in ids :
                 Cardinality({i \in DOMAIN Entries(doc) : EntryName(doc, i) = vulns[k][3]})
                   = Cardinality({j \in ids : vulns[j][3] = vulns[k][3]})
C10_OneEntryPerFinding == [][C10_Step]_vars

\* C10 witness: an all-formats run wrote six documents, each with the two
\* findings of its scan.
C10_Witness ==
    /\ AllDone /\ ~last.raised
    /\ \A f \in Formats :
          /\ IsDocument(files[Path("security_report", f)])
          /\ Len(Entries(files[Path("security_report", f)])) > 1

\* The four aggregate counts a document shows, as the text a reader sees, in
\* the order total, high, medium, low; empty when the document shows none.
Counts(doc) ==
    CASE doc.kind = "html" -> [i \in 1..4 |-> doc.cards[i][2]]
      [] doc.kind = "pdf" -> [i \in 1..4 |-> doc.summary[i + 1][2]]
      [] doc.kind = "json" -> <<doc.total_alerts.text, doc.high_risk.text,
                                doc.medium_risk.text, doc.low_risk.text>>
      [] doc.kind = "docx" -> [i \in 1..4 |-> doc.summary[i][2]]
      [] doc.kind = "xlsx" -> [i \in 1..4 |-> StrInt(doc.counts[i][2])]
      [] doc.kind = "csv" -> <<>>

\* The counts of the scans row the renderer read.
StoredCounts(row) == <<StrInt(row[6]), StrInt(row[7]), StrInt(row[8]), StrInt(row[9])>>

\* C11: the document a renderer writes, in each of the six formats, shows the
\* four aggregate counts total, high, medium and low with the values of the
\* scans row, whether or not they agree with the findings.
C11_Step ==
    (gen.pc = "fetch" /\ GeneratorStep /\ LastOf(log').outcome = "written") =>
        Counts(files'[OutputFile]) = StoredCounts(gen.scan[1])
C11_CountsVerbatim == [][C11_Step]_vars

\* C12: a step of the generator (get_scan_data, a renderer, the loop of
\* generate_all_formats) leaves the scans and vulnerabilities tables as they
\* were, and leaves every file as it was except the one at the output path the
\* running renderer was given.
C12_Step ==
    GeneratorStep =>
        /\ scans' = scans
        /\ vulns' = vulns
        /\ \A b \in BaseNames, f \in Formats :
              (gen.pc \in {"idle", "exit"} \/ b # gen.base \/ f # Head(gen.queue)) =>
                  files'[Path(b, f)] = files[Path(b, f)]
C12_ReadOnly == [][C12_Step]_vars

\* C12 witness: an all-formats run over a store with a scan and findings
\* wrote its six documents, and no file of the other base name exists.
C12_Witness ==
    /\ AllDone /\ ~last.raised
    /\ scans # <<>> /\ vulns # <<>>
    /\ \A f \in Formats :
          /\ IsDocument(files[Path("security_report", f)])
          /\ files[Path("report", f)] = Absent

\* Whether the scans table has a row with the identifier.
ScanExists(scan_id) == \E k \in DOMAIN scans : scans[k][1] = scan_id

\* C13 as stated: for an existing scan without findings every available
\* renderer goes on to read the findings, returns True and writes its file,
\* from an aggregate whose findings list is empty.
C13_StepAlways ==
    /\ (gen.pc = "enter" /\ GeneratorStep /\ Available(Current)
          /\ ScanExists(gen.scan_id) /\ StoredIds(gen.scan_id) = {}) =>
            gen'.pc = "fetch"
    /\ (gen.pc = "fetch" /\ GeneratorStep /\ StoredIds(gen.scan_id) = {}) =>
            /\ LastOf(log').ret = <<TRUE>>
            /\ LastOf(log').data # <<>>
            /\ IsDocument(files'[OutputFile])
C13_Step ==
    /\ (gen.pc \in {"enter", "fetch"} /\ GeneratorStep /\ log' # log
          /\ ScanExists(gen.scan_id)) =>
            LastOf(log').outcome # "not_found"
    /\ (gen.pc = "enter" /\ GeneratorStep /\ Available(Current)
          /\ ScanExists(gen.scan_id) /\ StoredIds(gen.scan_id) = {}) =>
            gen'.pc = "fetch" \/ last'.raised
    /\ (gen.pc = "fetch" /\ GeneratorStep /\ StoredIds(gen.scan_id) = {}) =>
            \/ last'.raised
            \/ /\ LastOf(log').ret = <<TRUE>>
               /\ LastOf(log').data # <<>>
               /\ LastOf(log').data[1].vulnerabilities = <<>>
               /\ IsDocument(files'[OutputFile])
               /\ Entries(files'[OutputFile]) = <<>>
NthStored(scan_id, i) ==
    CHOOSE k \in StoredIds(scan_id) :
        Cardinality({j \in StoredIds(scan_id) : j <= k}) = i

\* The number an entry carries in the formats that number their entries.
EntryNumber(doc, i) ==
    CASE doc.kind = "html" -> doc.findings[i].title[1]
      [] doc.kind \in {"pdf", "docx"} -> doc.findings[i].heading[1]
      [] doc.kind = "xlsx" -> StrInt(doc.rows[i].num)

\* C14: in the document a renderer writes, the i-th entry is the i-th stored
\* finding of the scan, and in the HTML, PDF, DOCX and Excel documents it
\* carries the number i.
C14_Step ==
    (gen.pc = "fetch" /\ GeneratorStep /\ LastOf(log').outcome = "written") =>
        LET doc == files'[OutputFile]
        IN  \A i \in DOMAIN Entries(doc) :
              /\ EntryName(doc, i) = vulns[NthStored(gen.scan_id, i)][3]
              /\ doc.kind \in {"html", "pdf", "docx", "xlsx"} =>
                    EntryNumber(doc, i) = StrInt(i)
C14_StoredOrder == [][C14_Step]_vars

\* C14 witness: an all-formats run wrote six documents for a scan whose two
\* stored findings have different names, each document naming them in order.
C14_Witness ==
    /\ AllDone /\ ~last.raised
    /\ \A f \in Formats :
          LET doc == files[Path("security_report", f)]
          IN  /\ IsDocument(doc)
              /\ Len(Entries(doc)) = 2
              /\ EntryName(doc, 1) = Findings[1][1]
              /\ EntryName(doc, 2) = Findings[2][1]

\* The rows of a document's count block, label and value as text, in the
\* order the document shows them.
CountBlock(doc) ==
    CASE doc.kind = "html" -> doc.cards
      [] doc.kind = "pdf" -> Tail(doc.summary)
      [] doc.kind = "docx" -> doc.summary
      [] doc.kind = "xlsx" ->
           [i \in DOMAIN doc.counts |-> <<doc.counts[i][1], StrInt(doc.counts[i][2])>>]
IsSeverityRow(row) == row[1] \in {"High Risk", "Medium Risk", "Low Risk"}
SeverityRows(doc) == SelectSeq(CountBlock(doc), IsSeverityRow)

\* C15: in the HTML, PDF, DOCX and Excel documents a renderer writes, the
\* severity counts stand in the order high, medium, low, each under its own
\* label, whatever their values.
C15_Step ==
    (gen.pc = "fetch" /\ GeneratorStep /\ LastOf(log').outcome = "written"
       /\ Current \in {"HTML", "PDF", "DOCX", "Excel"}) =>
        SeverityRows(files'[OutputFile]) =
            << <<"High Risk", StrInt(gen.scan[1][7])>>,
               <<"Medium Risk", StrInt(gen.scan[1][8])>>,
               <<"Low Risk", StrInt(gen.scan[1][9])>> >>
C15_HighMediumLow == [][C15_Step]_vars

\* C15 witness: an all-formats run wrote the four documents for a scan whose
\* medium count is larger than its high count.
C15_Witness ==
    /\ AllDone /\ ~last.raised
    /\ \A f \in {"HTML", "PDF", "DOCX", "Excel"} :
          LET doc == files[Path("security_report", f)]
          IN  /\ IsDocument(doc)
              /\ [i \in 1..3 |-> SeverityRows(doc)[i][2]] = <<"0", "1", "0">>

\* What the batch script must have recorded for the k-th answer of start_scan.
ExpectedResult(k) ==
    IF ScanIdTruthy(batch.returned[k][2])
    THEN [url |-> Websites[k], scan_id |-> batch.returned[k][2], status |-> "completed"]
    ELSE [url |-> Websites[k], scan_id |-> <<>>, status |-> "failed"]

\* The scan ids start_scan has returned as truthy, in the order returned.
RECURSIVE TruthyIds(_)
TruthyIds(rs) ==
    IF rs = <<>> THEN <<>>
    ELSE (IF ScanIdTruthy(Head(rs)[2]) THEN <<Head(rs)[2][1]>> ELSE <<>>)
         \o TruthyIds(Tail(rs))

CallsOf(name) == SelectSeq(batch.calls, LAMBDA c : c[1] = name)

\* C16: the batch script asks for the scans in list order; every entry of the
\* result list is that of its website, 'completed' with the returned id when
\* start_scan returned a truthy id and 'failed' with None otherwise;
\* print_summary and generate_report have run for the truthy ids and for no
\* other; and when the loop has ended every website has been scanned and has
\* its entry, whatever scans failed.
C16_BatchResults ==
    batch.pc # "off" =>
        /\ \A k \in DOMAIN batch.returned : batch.returned[k][1] = Websites[k]
        /\ Len(batch.results) <= Len(batch.returned)
        /\ \A k \in DOMAIN batch.results : batch.results[k] = ExpectedResult(k)
        /\ LET ended == SubSeq(batch.returned, 1, Len(batch.results))
           IN  /\ Len(CallsOf("print_summary")) >= Len(TruthyIds(ended))
               /\ Len(CallsOf("generate_report")) >= Len(TruthyIds(ended))
        /\ Len(CallsOf("print_summary")) <= Len(TruthyIds(batch.returned))
        /\ Len(CallsOf("generate_report")) <= Len(CallsOf("print_summary"))
        /\ \A i \in DOMAIN CallsOf("print_summary") :
              CallsOf("print_summary")[i][2] = TruthyIds(batch.returned)[i]
        /\ \A i \in DOMAIN CallsOf("generate_report") :
              CallsOf("generate_report")[i][2] = TruthyIds(batch.returned)[i]
        /\ batch.i > Len(Websites) =>
              /\ Len(batch.returned) = Len(Websites)
              /\ Len(batch.results) = Len(Websites)
              /\ Len(CallsOf("print_summary")) = Len(TruthyIds(batch.returned))
              /\ Len(CallsOf("generate_report")) = Len(TruthyIds(batch.returned))

\* C16 witness: the script has ended after the first website's scan failed,
\* the second returned an id and the third failed.
C16_Witness ==
    /\ batch.pc = "done"
    /\ Len(batch.results) = Len(Websites)
    /\ [k \in DOMAIN batch.results |-> batch.results[k].status]
          = <<"failed", "completed", "failed">>
    /\ Len(batch.calls) = 2

\* An optional column with the empty string replaced by None.
Absentised(s) == IF s = "" THEN None ELSE s

\* C17: the HTML card of a finding has the solution block exactly when the
\* solution is a non-empty string, and the reference line exactly when the
\* reference is one, each with the stored text; an empty string gives the card
\* an absent value gives; and number, name, severity, description, location
\* and confidence are in the card in every case.
C17_OptionalBlocks ==
    probe.pc = "rendered" =>
        LET v == probe.vuln[1]
            card == probe.out[1]
        IN  /\ card.solution # <<>> <=> v.solution \notin {None, ""}
            /\ card.solution # <<>> => card.solution[1][2] = v.solution
            /\ card.reference # <<>> <=> v.reference \notin {None, ""}
            /\ card.reference # <<>> => card.reference[1][2] = v.reference
            /\ card = HtmlFinding(probe.idx,
                        [v EXCEPT !.solution = Absentised(@), !.reference = Absentised(@)])
            /\ card.title = <<StrInt(probe.idx), v.name>>
            /\ card.badge = v.severity
            /\ card.description = v.description
            /\ card.location = v.url
            /\ card.confidence = v.confidence

\* C17 witness: a card rendered for a finding whose solution is the empty
\* string and whose reference is a text.
C17_Witness ==
    /\ probe.pc = "rendered"
    /\ probe.vuln[1].solution = ""
    /\ probe.vuln[1].reference \notin {None, ""}
    /\ probe.out[1].solution = <<>>
    /\ probe.out[1].reference # <<>>

====
